---- MODULE Spec2Model ----
(***************************************************************************)
(* go-searchbot: the traversal engine (package search, SearchFiles) and    *)
(* the result presenter's helpers (package display, FormatSize and         *)
(* truncateString).                                                        *)
(*                                                                         *)
(* The source holds two revisions of each package:                         *)
(*   search : src/pkg/display/display.go:70-178 (validates its inputs)     *)
(*            src/unnamed/part_001              (no input validation)      *)
(*   display: src/unnamed/part_000              (sign, codepoints)         *)
(*            src/pkg/display/display.go:1-68   (no sign, byte lengths)    *)
(* Both revisions of SearchFiles and of FormatSize are modelled: the       *)
(* variable impl says which SearchFiles is running, fn which function was  *)
(* applied.  truncateString is the one of part_000.                        *)
(*                                                                         *)
(* Strings are sequences of codepoints ("a", or "U+0414" outside ASCII).   *)
(* A path is a sequence of components; an absolute path starts with Slash. *)
(* A 64-bit integer is a sign and a little-endian magnitude in base 1024   *)
(* (TLC's own integers are 32 bits wide).                                  *)
(***************************************************************************)
EXTENDS Integers, Sequences, FiniteSets, TLC

VARIABLES
    impl,       \* which SearchFiles revision is called
    pattern,    \* SearchFiles argument
    root,       \* SearchFiles argument (a path as the caller spelled it)
    opts,       \* SearchFiles argument: [Recursive, ExactMatch, CaseSensitive]
    fs,         \* the filesystem: absolute path -> [kind, size, mtime]
    pc,         \* "call", "walk", "done" (search); "in", "out" (pure functions)
    stack,      \* filepath.Walk's pending entries, one frame per open directory
    results,    \* the results slice of SearchFiles
    walkErr,    \* the error filepath.Walk is about to return
    ret,        \* what SearchFiles returned: [results, err]
    accessed,   \* system calls made so far: [op, path, err]
    faultsLeft, \* how many more accesses the environment may fail
    fn,         \* which pure function was applied, and of which revision
    arg,        \* its arguments
    out         \* its result

vars == <<impl, pattern, root, opts, fs, pc, stack, results, walkErr, ret,
          accessed, faultsLeft, fn, arg, out>>

searchVars == <<impl, pattern, root, opts, fs, stack, results, walkErr, ret,
                accessed, faultsLeft>>
pureVars == <<fn, arg, out>>

----------------------------------------------------------------------------
(* Characters and strings                                                  *)

\* The characters of the model, in ascending codepoint (= UTF-8 byte) order.
Chars ==
    << ".", "/",
       "A", "B", "C", "D", "E", "F", "G", "H", "I", "J", "K", "L", "M",
       "N", "O", "P", "Q", "R", "S", "T", "U", "V", "W", "X", "Y", "Z",
       "_",
       "a", "b", "c", "d", "e", "f", "g", "h", "i", "j", "k", "l", "m",
       "n", "o", "p", "q", "r", "s", "t", "u", "v", "w", "x", "y", "z",
       "U+0414", "U+0434", "U+6587" >>

Ord(c) == CHOOSE i \in 1..Len(Chars) : Chars[i] = c

\* Bytes of the UTF-8 encoding of a character.
ByteLen(c) == IF Ord(c) <= Ord("z") THEN 1 ELSE IF c = "U+6587" THEN 3 ELSE 2

\* len(str): the length in bytes.
RECURSIVE ByteCount(_)
ByteCount(s) == IF s = <<>> THEN 0 ELSE ByteLen(Head(s)) + ByteCount(Tail(s))

\* utf8.RuneCountInString(str)
RuneCountInString(s) == Len(s)

\* strings.ToLower on one character: A-Z and the Cyrillic capital map to
\* their lower-case letter, everything else is unchanged.
ToLowerChar(c) ==
    IF Ord("A") <= Ord(c) /\ Ord(c) <= Ord("Z")
    THEN Chars[Ord(c) - Ord("A") + Ord("a")]
    ELSE IF c = "U+0414" THEN "U+0434" ELSE c

\* strings.ToLower
ToLower(s) == [i \in DOMAIN s |-> ToLowerChar(s[i])]

\* strings.HasPrefix
HasPrefix(s, p) == Len(p) <= Len(s) /\ SubSeq(s, 1, Len(p)) = p

\* strings.Contains
Contains(s, sub) ==
    \E i \in 1..(Len(s) - Len(sub) + 1) : SubSeq(s, i, i + Len(sub) - 1) = sub

\* strings.Repeat
Repeat(c, n) == [i \in 1..n |-> c]

\* Go's < on strings: bytewise lexicographic order.
RECURSIVE StrLess(_, _)
StrLess(a, b) ==
    IF b = <<>> THEN FALSE
    ELSE IF a = <<>> THEN TRUE
    ELSE IF Head(a) = Head(b) THEN StrLess(Tail(a), Tail(b))
    ELSE Ord(Head(a)) < Ord(Head(b))

\* sort.Strings on a set of distinct names (readDirNames sorts its result).
RECURSIVE SortNames(_)
SortNames(S) ==
    IF S = {} THEN <<>>
    ELSE LET m == CHOOSE x \in S : \A y \in S \ {x} : StrLess(x, y)
         IN  <<m>> \o SortNames(S \ {m})

----------------------------------------------------------------------------
(* Names and paths                                                         *)

Slash == <<"/">>
Dot == <<".">>
NodeModules == <<"n", "o", "d", "e", "_", "m", "o", "d", "u", "l", "e", "s">>
Library == <<"L", "i", "b", "r", "a", "r", "y">>
System == <<"S", "y", "s", "t", "e", "m">>
Applications == <<"A", "p", "p", "l", "i", "c", "a", "t", "i", "o", "n", "s">>

\* filepath.Base: the last component.
Base(path) == path[Len(path)]

\* filepath.Dir: "/" is its own parent, and a bare name's parent is ".".
Dir(path) ==
    IF Len(path) > 1 THEN SubSeq(path, 1, Len(path) - 1)
    ELSE IF path = <<Slash>> THEN path ELSE <<Dot>>

\* filepath.Join(dir, name), which cleans its result: "." joined with a
\* name is the name.
Join(dir, name) == IF dir = <<Dot>> THEN <<name>> ELSE Append(dir, name)

IsAbs(path) == Head(path) = Slash

----------------------------------------------------------------------------
(* 64-bit integers                                                         *)

\* FormatSize's unit, and the base of the magnitude's digits.
unit == 1024

\* A non-negative int64 from its base-1024 digits, least significant first
\* and without leading zeros (zero is the empty sequence).
Nat64(digits) == [neg |-> FALSE, mag |-> digits]

Zero64 == Nat64(<<>>)
MaxInt64 == Nat64(<<1023, 1023, 1023, 1023, 1023, 1023, 7>>)
MinInt64 == [neg |-> TRUE, mag |-> <<0, 0, 0, 0, 0, 0, 8>>]

\* -size in int64 arithmetic: the negation of the least value wraps to itself.
Neg64(x) ==
    IF x.mag = <<>> \/ x = MinInt64 THEN x ELSE [neg |-> ~x.neg, mag |-> x.mag]

\* size < unit
LessUnit(x) == x.neg \/ Len(x.mag) <= 1

\* The value of at most three digits.
RECURSIVE Val(_)
Val(digits) == IF digits = <<>> THEN 0 ELSE Head(digits) + unit * Val(Tail(digits))

\* Drop the leading (most significant) zero digits.
RECURSIVE Norm(_)
Norm(digits) ==
    IF digits = <<>> THEN <<>>
    ELSE IF digits[Len(digits)] = 0 THEN Norm(SubSeq(digits, 1, Len(digits) - 1))
    ELSE digits

\* digits + 1
RECURSIVE Inc(_)
Inc(digits) ==
    IF digits = <<>> THEN <<1>>
    ELSE IF Head(digits) = unit - 1 THEN <<0>> \o Inc(Tail(digits))
    ELSE <<Head(digits) + 1>> \o Tail(digits)

\* The number of bits of n > 0.
RECURSIVE Bits(_)
Bits(n) == IF n = 0 THEN 0 ELSE 1 + Bits(n \div 2)

BitLen(mag) == IF mag = <<>> THEN 0 ELSE 10 * (Len(mag) - 1) + Bits(mag[Len(mag)])

\* float64(size) for size >= 0: a magnitude of more than 53 bits is rounded
\* to 53 significant bits, ties to even.  At most 11 bits are dropped, so
\* the rounding is decided in the two lowest digits.
float64(mag) ==
    IF BitLen(mag) <= 53 THEN mag
    ELSE LET m == 2 ^ (BitLen(mag) - 53)
             low == mag[1] + unit * mag[2]
             q == low \div m
             r == low % m
             up == 2 * r > m \/ (2 * r = m /\ q % 2 = 1)
             low2 == (IF up THEN q + 1 ELSE q) * m
             high == SubSeq(mag, 3, Len(mag))
         IN  <<low2 % unit, (low2 \div unit) % unit>>
                \o (IF low2 \div (unit * unit) = 1 THEN Inc(high) ELSE high)

Digit(d) == <<"0", "1", "2", "3", "4", "5", "6", "7", "8", "9">>[d + 1]

\* magnitude / 10 and magnitude % 10, by long division from the top digit.
RECURSIVE DivMod10(_)
DivMod10(digits) ==
    IF digits = <<>> THEN [q |-> <<>>, r |-> 0]
    ELSE LET hi == DivMod10(Tail(digits))
             cur == hi.r * unit + Head(digits)
         IN  [q |-> <<cur \div 10>> \o hi.q, r |-> cur % 10]

\* The decimal digits of a magnitude.
RECURSIVE Decimal(_)
Decimal(mag) ==
    IF mag = <<>> THEN <<"0">>
    ELSE LET d == DivMod10(mag)
             q == Norm(d.q)
         IN  (IF q = <<>> THEN <<>> ELSE Decimal(q)) \o <<Digit(d.r)>>

\* fmt's %d
FormatInt(x) == (IF x.neg THEN <<"-">> ELSE <<>>) \o Decimal(x.mag)

\* digits * 10 + c, split into the digits kept and the carry out of the top.
RECURSIVE Mul10(_, _)
Mul10(digits, c) ==
    IF digits = <<>> THEN [rem |-> <<>>, c |-> c]
    ELSE LET t == Head(digits) * 10 + c
             r == Mul10(Tail(digits), t \div unit)
         IN  [rem |-> <<t % unit>> \o r.rem, c |-> r.c]

\* fmt's %.1f of float64(size)/float64(div), where div = unit^k: the
\* quotient in tenths, rounded to the nearest tenth, ties to even.
FormatFloat1(mag, div) ==
    LET k == Len(div) - 1
        f == float64(mag)
        hi == Val(SubSeq(f, k + 1, Len(f)))
        m == Mul10(SubSeq(f, 1, k), 0)
        lowerZero == \A i \in 1..(k - 1) : m.rem[i] = 0
        above == m.rem[k] > unit \div 2 \/ (m.rem[k] = unit \div 2 /\ ~lowerZero)
        tie == m.rem[k] = unit \div 2 /\ lowerZero
        t0 == hi * 10 + m.c
        t == IF above \/ (tie /\ t0 % 2 = 1) THEN t0 + 1 ELSE t0
    IN  Decimal(Norm(<<(t \div 10) % unit, (t \div 10) \div unit>>))
            \o <<".", Digit(t % 10)>>

----------------------------------------------------------------------------
(* The filesystem                                                          *)

MaxFaults == 1

Home == <<Slash, <<"h">>>>

TopNames == {<<"w">>, <<".", "c">>}
FileNames == {<<"a", "b">>, <<"A", "b">>, <<".", "a", "b">>}
SubNames == {<<"s">>, <<".", "g">>, Library}
DeepNames == {<<"m">>, NodeModules}
Patterns == {<<>>, <<"a", "b">>, <<"A", "b">>}

\* The entries of a tree
\*   /h/d0/{f1, d1/{cAb, d2/{ab}}, e/{<U+0414>Ab}}
\* os.Lstat does not follow symbolic links, so "file" stands for every entry
\* that is not a directory.
TreeEntries(d0, f1, d1, d2) ==
    LET top == Append(Home, d0)
        sub == Append(top, d1)
        deep == Append(sub, d2)
        other == Append(top, <<"e">>)
        D(p) == [path |-> p, kind |-> "dir", size |-> Nat64(<<0, 4>>), mtime |-> 0]
        F(p, sz, t) == [path |-> p, kind |-> "file", size |-> Nat64(sz), mtime |-> t]
    IN  { D(<<Slash>>), D(Home), D(top), D(sub), D(deep), D(other),
          F(Append(top, f1), <<0, 1>>, 1),
          F(Append(sub, <<"c", "A", "b">>), <<0, 2>>, 2),
          F(Append(deep, <<"a", "b">>), <<7>>, 3),
          F(Append(other, <<"U+0414", "A", "b">>), <<>>, 4) }

Tree(d0, f1, d1, d2) ==
    LET E == TreeEntries(d0, f1, d1, d2)
    IN  [p \in {e.path : e \in E} |->
            LET e == CHOOSE x \in E : x.path = p
            IN  [kind |-> e.kind, size |-> e.size, mtime |-> e.mtime]]

\* The roots a caller may pass for a tree: its top directory, a directory
\* and a file below it, a path that does not exist, and ".".
Roots(d0, f1, d1) ==
    LET top == Append(Home, d0)
    IN  { top, Append(top, d1), Append(top, f1), Append(Home, <<"z", "z">>), <<Dot>> }

\* The process's working directory: the directory below Home.
Cwd == CHOOSE p \in DOMAIN fs : Len(p) = Len(Home) + 1

\* The absolute path the kernel resolves a path to.
Resolve(path) ==
    IF IsAbs(path) THEN path
    ELSE IF path = <<Dot>> THEN Cwd
    ELSE Cwd \o path

Exists(path) == Resolve(path) \in DOMAIN fs

\* os.FileInfo of an existing entry, as os.Lstat(path) reports it.
FileInfo(path) ==
    LET e == fs[Resolve(path)]
    IN  [Name |-> Base(path), IsDir |-> e.kind = "dir", Size |-> e.size,
         ModTime |-> e.mtime]

NoInfo == [Name |-> <<>>, IsDir |-> FALSE, Size |-> Nat64(<<>>), ModTime |-> 0]

\* readDirNames(path): the sorted names of a directory's entries.
readDirNames(path) ==
    LET d == Resolve(path)
    IN  SortNames({Base(q) : q \in {x \in DOMAIN fs :
                        Len(x) = Len(d) + 1 /\ SubSeq(x, 1, Len(d)) = d}})

----------------------------------------------------------------------------
(* package search                                                          *)

ErrEmptyPattern == "search pattern cannot be empty"
ErrInvalidPath == "invalid search path"
IOError == "lstat or readdir failed"

\* Mutant of shouldSkipDirectory: the deny-list is forgotten.
shouldSkipDirectoryHiddenOnly(path) == HasPrefix(Base(path), Dot)

shouldSkipDirectory(path) ==
    LET base == Base(path)
    IN  \/ HasPrefix(base, Dot)
        \/ base = NodeModules
        \/ base = Library
        \/ base = System
        \/ base = Applications

\* Mutant of matchFile: the record carries the lower-cased name.
matchFileFoldedName(path, info, res) ==
    IF HasPrefix(info.Name, Dot)
    THEN [ret |-> "nil", results |-> res]
    ELSE LET fileName == IF ~opts.CaseSensitive THEN ToLower(info.Name) ELSE info.Name
             searchPattern == IF ~opts.CaseSensitive THEN ToLower(pattern) ELSE pattern
             matches == IF opts.ExactMatch
                        THEN fileName = searchPattern
                        ELSE Contains(fileName, searchPattern)
         IN  [ret |-> "nil",
              results |-> IF matches
                          THEN Append(res, [Path |-> path, Name |-> fileName,
                                            Size |-> info.Size, ModTime |-> info.ModTime])
                          ELSE res]

\* Mutant of matchFile: only the file name is lower-cased, not the pattern.
matchFilePatternNotFolded(path, info, res) ==
    IF HasPrefix(info.Name, Dot)
    THEN [ret |-> "nil", results |-> res]
    ELSE LET fileName == IF ~opts.CaseSensitive THEN ToLower(info.Name) ELSE info.Name
             matches == IF opts.ExactMatch
                        THEN fileName = pattern
                        ELSE Contains(fileName, pattern)
         IN  [ret |-> "nil",
              results |-> IF matches
                          THEN Append(res, [Path |-> path, Name |-> info.Name,
                                            Size |-> info.Size, ModTime |-> info.ModTime])
                          ELSE res]

\* The file branch of the callback: the hidden-file test, the matching rule
\* and the append (the same text in both revisions).
matchFile(path, info, res) ==
    IF HasPrefix(info.Name, Dot)
    THEN [ret |-> "nil", results |-> res]
    ELSE LET fileName == IF ~opts.CaseSensitive THEN ToLower(info.Name) ELSE info.Name
             searchPattern == IF ~opts.CaseSensitive THEN ToLower(pattern) ELSE pattern
             matches == IF opts.ExactMatch
                        THEN fileName = searchPattern
                        ELSE Contains(fileName, searchPattern)
         IN  [ret |-> "nil",
              results |-> IF matches
                          THEN Append(res, [Path |-> path, Name |-> info.Name,
                                            Size |-> info.Size, ModTime |-> info.ModTime])
                          ELSE res]

\* Mutant of walkFn: an access error is handed back to filepath.Walk.
walkFnPropagates(path, info, err, res) ==
    IF err # "nil" THEN [ret |-> err, results |-> res]
    ELSE IF info.IsDir
    THEN IF path # root /\ ~opts.Recursive THEN [ret |-> "SkipDir", results |-> res]
         ELSE IF shouldSkipDirectory(path) THEN [ret |-> "SkipDir", results |-> res]
         ELSE [ret |-> "nil", results |-> res]
    ELSE matchFile(path, info, res)

\* Mutant of walkFn: the root is exempt from the skip rule.
walkFnExemptsRoot(path, info, err, res) ==
    IF err # "nil" THEN [ret |-> "nil", results |-> res]
    ELSE IF info.IsDir
    THEN IF path # root /\ ~opts.Recursive THEN [ret |-> "SkipDir", results |-> res]
         ELSE IF path # root /\ shouldSkipDirectory(path)
         THEN [ret |-> "SkipDir", results |-> res]
         ELSE [ret |-> "nil", results |-> res]
    ELSE matchFile(path, info, res)

\* Mutant of walkFn: the Recursive option is not consulted.
walkFnIgnoresRecursive(path, info, err, res) ==
    IF err # "nil" THEN [ret |-> "nil", results |-> res]
    ELSE IF info.IsDir
    THEN IF shouldSkipDirectory(path) THEN [ret |-> "SkipDir", results |-> res]
         ELSE [ret |-> "nil", results |-> res]
    ELSE matchFile(path, info, res)

\* The callback SearchFiles hands to filepath.Walk (display.go revision).
walkFn(path, info, err, res) ==
    IF err # "nil" THEN [ret |-> "nil", results |-> res]
    ELSE IF info.IsDir
    THEN IF path # root /\ ~opts.Recursive THEN [ret |-> "SkipDir", results |-> res]
         ELSE IF shouldSkipDirectory(path) THEN [ret |-> "SkipDir", results |-> res]
         ELSE [ret |-> "nil", results |-> res]
    ELSE matchFile(path, info, res)

\* The callback of the part_001 revision: the two directory tests are in
\* the other order.
walkFnPart001(path, info, err, res) ==
    IF err # "nil" THEN [ret |-> "nil", results |-> res]
    ELSE IF info.IsDir
    THEN IF shouldSkipDirectory(path) THEN [ret |-> "SkipDir", results |-> res]
         ELSE IF path # root /\ ~opts.Recursive THEN [ret |-> "SkipDir", results |-> res]
         ELSE [ret |-> "nil", results |-> res]
    ELSE matchFile(path, info, res)

Callback(path, info, err, res) ==
    IF impl = "display.go" THEN walkFn(path, info, err, res)
    ELSE walkFnPart001(path, info, err, res)

NoRet == [results |-> <<>>, err |-> "pending"]

\* The outcomes the environment allows for a system call on path: it fails
\* when the path does not exist, and may fail while faults are left.
Outcomes(path) ==
    IF ~Exists(path) THEN {"ENOENT"}
    ELSE {"nil"} \cup (IF faultsLeft > 0 THEN {IOError} ELSE {})

Spend(e) == IF e = IOError THEN faultsLeft - 1 ELSE faultsLeft

\* Mutant of Validate: the root is checked before the pattern.
ValidateRootFirst(statErr) ==
    IF impl = "display.go"
    THEN IF statErr # "nil" THEN [err |-> ErrInvalidPath, stat |-> TRUE]
         ELSE IF pattern = <<>> THEN [err |-> ErrEmptyPattern, stat |-> TRUE]
         ELSE [err |-> "nil", stat |-> TRUE]
    ELSE [err |-> "nil", stat |-> FALSE]

\* SearchFiles up to the call of filepath.Walk: the input validation of the
\* display.go revision; the part_001 revision has none.  stat says whether
\* os.Stat(root) was called.
Validate(statErr) ==
    IF impl = "display.go"
    THEN IF pattern = <<>> THEN [err |-> ErrEmptyPattern, stat |-> FALSE]
         ELSE IF statErr # "nil" THEN [err |-> ErrInvalidPath, stat |-> TRUE]
         ELSE [err |-> "nil", stat |-> TRUE]
    ELSE [err |-> "nil", stat |-> FALSE]

Call ==
    /\ pc = "call"
    /\ \E statErr \in Outcomes(root) :
        LET v == Validate(statErr)
        IN  /\ accessed' = IF v.stat
                           THEN accessed \cup {[op |-> "stat", path |-> root, err |-> statErr]}
                           ELSE accessed
            /\ faultsLeft' = IF v.stat THEN Spend(statErr) ELSE faultsLeft
            \* without a call of os.Stat its outcome is of no account
            /\ (~v.stat => statErr = "nil" \/ ~Exists(root))
            /\ IF v.err # "nil"
               THEN /\ pc' = "done"
                    /\ ret' = [results |-> <<>>, err |-> v.err]
                    /\ stack' = <<>>
               ELSE /\ pc' = "walk"
                    /\ ret' = ret
                    /\ stack' = << <<root>> >>
    /\ UNCHANGED <<impl, pattern, root, opts, fs, results, walkErr>>
    /\ UNCHANGED pureVars

\* filepath.Walk drops the frames it has finished.
RECURSIVE DropEmpty(_)
DropEmpty(st) ==
    IF st = <<>> THEN <<>>
    ELSE IF Head(st) = <<>> THEN DropEmpty(Tail(st))
    ELSE st

\* One step of filepath.Walk: lstat the next entry, read it when it is a
\* directory, call the callback and act on what it returns.
Visit ==
    /\ pc = "walk"
    /\ stack # <<>>
    /\ LET path == Head(Head(stack))
           rest == <<Tail(Head(stack))>> \o Tail(stack)
       IN  \E lerr \in Outcomes(path) :
           \E rerr \in (IF lerr = "nil" /\ fs[Resolve(path)].kind = "dir"
                        THEN {"nil"} \cup (IF Spend(lerr) > 0 THEN {IOError} ELSE {})
                        ELSE {"nil"}) :
             LET isDir == lerr = "nil" /\ fs[Resolve(path)].kind = "dir"
                 info == IF lerr = "nil" THEN FileInfo(path) ELSE NoInfo
                 err == IF lerr # "nil" THEN lerr ELSE rerr
                 cb == Callback(path, info, err, results)
                 abort == cb.ret \notin {"nil", "SkipDir"}
                 descend == isDir /\ err = "nil" /\ cb.ret = "nil"
                 leave == ~isDir /\ lerr = "nil" /\ cb.ret = "SkipDir"
             IN  /\ accessed' = accessed
                        \cup {[op |-> "lstat", path |-> path, err |-> lerr]}
                        \cup (IF isDir THEN {[op |-> "readdir", path |-> path, err |-> rerr]}
                              ELSE {})
                 /\ faultsLeft' = IF rerr = IOError THEN faultsLeft - 1 ELSE Spend(lerr)
                 /\ results' = cb.results
                 /\ walkErr' = IF abort THEN cb.ret ELSE walkErr
                 /\ stack' = IF abort THEN <<>>
                             ELSE IF descend
                             THEN DropEmpty(<<[i \in DOMAIN readDirNames(path) |->
                                                 Join(path, readDirNames(path)[i])]>> \o rest)
                             ELSE IF leave THEN DropEmpty(Tail(stack))
                             ELSE DropEmpty(rest)
    /\ UNCHANGED <<impl, pattern, root, opts, fs, pc, ret>>
    /\ UNCHANGED pureVars

\* filepath.Walk has returned: SearchFiles returns.
Return ==
    /\ pc = "walk"
    /\ stack = <<>>
    /\ pc' = "done"
    /\ ret' = IF impl = "display.go"
              THEN IF walkErr # "nil" THEN [results |-> <<>>, err |-> walkErr]
                   ELSE [results |-> results, err |-> "nil"]
              ELSE [results |-> results, err |-> walkErr]
    /\ UNCHANGED <<impl, pattern, root, opts, fs, stack, results, walkErr,
                   accessed, faultsLeft>>
    /\ UNCHANGED pureVars

Options == [Recursive : BOOLEAN, ExactMatch : BOOLEAN, CaseSensitive : BOOLEAN]

Init ==
    /\ impl \in {"display.go", "part_001"}
    /\ pattern \in Patterns
    /\ opts \in Options
    /\ \E d0 \in TopNames, f1 \in FileNames, d1 \in SubNames, d2 \in DeepNames :
        /\ fs = Tree(d0, f1, d1, d2)
        /\ root \in Roots(d0, f1, d1)
    /\ pc = "call"
    /\ stack = <<>>
    /\ results = <<>>
    /\ walkErr = "nil"
    /\ ret = NoRet
    /\ accessed = {}
    /\ faultsLeft = MaxFaults
    /\ fn = "none"
    /\ arg = <<>>
    /\ out = <<>>

Next == Call \/ Visit \/ Return

Spec == Init /\ [][Next]_vars

----------------------------------------------------------------------------
(* package display                                                         *)

Suffixes == <<"K", "M", "G", "T", "P", "E">>

\* What a call that panics leaves instead of a result.
Panic == <<"panic">>

\* Mutant of unitLoop: the loop runs while n > unit.
RECURSIVE unitLoopStrict(_, _, _)
unitLoopStrict(n, div, exp) ==
    IF Len(n) >= 2 /\ n # <<0, 1>> THEN unitLoopStrict(Tail(n), <<0>> \o div, exp + 1)
    ELSE [div |-> div, exp |-> exp]

\* for n := size / unit; n >= unit; n /= unit { div *= unit; exp++ }
RECURSIVE unitLoop(_, _, _)
unitLoop(n, div, exp) ==
    IF Len(n) >= 2 THEN unitLoop(Tail(n), <<0>> \o div, exp + 1)
    ELSE [div |-> div, exp |-> exp]

\* The tail of both revisions of FormatSize, for a size that is not below
\* unit: "%s%.1f %cB".
formatUnits(sign, size) ==
    LET l == unitLoop(Tail(size.mag), <<0, 1>>, 0)
    IN  IF l.exp + 1 > Len(Suffixes) THEN Panic
        ELSE sign \o FormatFloat1(size.mag, l.div) \o <<" ", Suffixes[l.exp + 1], "B">>

\* FormatSize of src/unnamed/part_000.
FormatSize(size) ==
    IF size = Zero64 THEN <<"0", " ", "B">>
    ELSE LET sign == IF size.neg THEN <<"-">> ELSE <<>>
             abs == IF size.neg THEN Neg64(size) ELSE size
         IN  IF LessUnit(abs) THEN sign \o FormatInt(abs) \o <<" ", "B">>
             ELSE formatUnits(sign, abs)

\* FormatSize of src/pkg/display/display.go: no sign handling.
FormatSizeDisplayGo(size) ==
    IF LessUnit(size) THEN FormatInt(size) \o <<" ", "B">>
    ELSE formatUnits(<<>>, size)

\* Mutant of truncateString: lengths are counted in bytes.
truncateStringBytes(str, maxLen) ==
    IF maxLen <= 0 THEN <<>>
    ELSE IF ByteCount(str) <= maxLen THEN str
    ELSE IF maxLen <= 3 THEN Repeat(".", maxLen)
    ELSE SubSeq(str, 1, maxLen - 3) \o <<".", ".", ".">>

\* truncateString of src/unnamed/part_000.
truncateString(str, maxLen) ==
    IF maxLen <= 0 THEN <<>>
    ELSE IF RuneCountInString(str) <= maxLen THEN str
    ELSE IF maxLen <= 3 THEN Repeat(".", maxLen)
    ELSE SubSeq(str, 1, maxLen - 3) \o <<".", ".", ".">>

\* The 64 bits of an int64 as seven base-1024 digits, least significant
\* first (the top digit holds four bits): two's complement.
Limbs64 == 7
TopLimb == 16

Pad64(digits) == digits \o [i \in 1..(Limbs64 - Len(digits)) |-> 0]

\* a + b + c on the 64 bits; the carry out of bit 63 is lost.
RECURSIVE AddBits(_, _, _)
AddBits(a, b, c) ==
    IF Len(a) = 1 THEN <<(a[1] + b[1] + c) % TopLimb>>
    ELSE LET t == Head(a) + Head(b) + c
         IN  <<t % unit>> \o AddBits(Tail(a), Tail(b), t \div unit)

\* The two's complement of the 64 bits: every bit inverted, plus one.
Complement(a) ==
    AddBits([i \in 1..Limbs64 |-> (IF i = Limbs64 THEN TopLimb ELSE unit) - 1 - a[i]],
            Pad64(<<>>), 1)

Bits64(x) == IF x.neg THEN Complement(Pad64(x.mag)) ELSE Pad64(x.mag)

Int64(bits) ==
    IF bits[Limbs64] >= TopLimb \div 2
    THEN [neg |-> TRUE, mag |-> Norm(Complement(bits))]
    ELSE Nat64(Norm(bits))

\* Mutant of Add64: the sum stops at the greatest and the least int64.
Add64Saturating(x, y) ==
    LET sum == Int64(AddBits(Bits64(x), Bits64(y), 0))
    IN  IF ~x.neg /\ ~y.neg /\ sum.neg THEN MaxInt64
        ELSE IF x.neg /\ y.neg /\ ~sum.neg THEN MinInt64
        ELSE sum

\* x + y of two int64: the sum wraps around.
Add64(x, y) == Int64(AddBits(Bits64(x), Bits64(y), 0))

\* Mutant of less: the records are compared by their paths.
lessPath(res, i, j) == StrLess(res[i].Path, res[j].Path)

\* The comparison PrintResults hands to sort.Slice.
less(res, i, j) == StrLess(res[i].Name, res[j].Name)

Swap(res, i, j) ==
    [res EXCEPT ![i] = res[j], ![j] = res[i]]

\* The inner loop of the insertion sort: the record at j moves down while it
\* is less than the one before it.
RECURSIVE insertDown(_, _)
insertDown(res, j) ==
    IF j > 1 /\ less(res, j, j - 1)
    THEN insertDown(Swap(res, j, j - 1), j - 1)
    ELSE res

RECURSIVE insertionSort(_, _)
insertionSort(res, i) ==
    IF i > Len(res) THEN res
    ELSE insertionSort(insertDown(res, i), i + 1)

\* sort.Slice(res, less): on a slice this short the library sorts by
\* insertion, in place.
sortSlice(res) == insertionSort(res, 2)

\* The running total of PrintResults.
RECURSIVE totalSize(_)
totalSize(res) ==
    IF res = <<>> THEN Zero64
    ELSE Add64(totalSize(SubSeq(res, 1, Len(res) - 1)),
               res[Len(res)].Size)

\* fmt's %-Ns: spaces after the string up to N characters.
PadRight(str, width) == str \o Repeat(" ", width - RuneCountInString(str))

\* "%-50s %-20s %-15s %s"
Row(name, size, modified, path) ==
    PadRight(name, 50) \o <<" ">> \o PadRight(size, 20) \o <<" ">>
        \o PadRight(modified, 15) \o <<" ">> \o path

Rule == Repeat("-", 100)

NoFilesFound == <<"No files found">>

\* "Found %d files (Total size: %s)"
Found(n, total) ==
    <<"Found ">> \o Decimal(IF n = 0 THEN <<>> ELSE <<n>>)
        \o <<" files (Total size: ">> \o total \o <<")">>

ColumnRow == Row(<<"N", "A", "M", "E">>, <<"S", "I", "Z", "E">>,
                 <<"M", "O", "D", "I", "F", "I", "E", "D">>, <<"P", "A", "T", "H">>)

\* PrintResults of src/unnamed/part_000: the lines written to the standard
\* output, and the caller's slice as the call leaves it.
PrintResults(res) ==
    IF Len(res) = 0
    THEN [stdout |-> <<<<>>, NoFilesFound>>, results |-> res]
    ELSE LET sorted == sortSlice(res)
         IN  [stdout |-> <<<<>>, Found(Len(sorted), FormatSize(totalSize(sorted))),
                           Rule, ColumnRow, Rule>>
                         \o [i \in DOMAIN sorted |->
                                Row(truncateString(sorted[i].Name, 47),
                                    FormatSize(sorted[i].Size),
                                    sorted[i].ModTime, sorted[i].Path)]
                         \o <<Rule>>,
              results |-> sorted]

----------------------------------------------------------------------------
(* FormatSize and truncateString applied to all the inputs of a bounded    *)
(* set                                                                     *)

LowDigits == {0, 256, 512, unit - 1}
TopDigits == {1, unit - 1}

\* Magnitudes of n digits with digits from LowDigits below a top digit.
RECURSIVE Mags(_, _)
Mags(n, tops) ==
    IF n = 1 THEN {<<t>> : t \in tops}
    ELSE {<<d>> \o m : d \in LowDigits, m \in Mags(n - 1, tops)}

\* The sizes FormatSize is applied to: every size below unit, sizes of each
\* number of digits, the greatest and the least int64, and their negations.
Sizes ==
    LET nat == {Norm(<<d>>) : d \in 0..(unit - 1)}
               \cup UNION {Mags(n, TopDigits) : n \in 2..6}
               \cup Mags(7, {1, 7})
    IN  {Nat64(m) : m \in nat}
        \cup {[neg |-> TRUE, mag |-> m] : m \in nat \ {<<>>}}
        \cup {MinInt64}

MaxStrLen == 5
MaxLenArg == 6

TruncChars == {"a", "U+0414", "U+6587"}

RECURSIVE Strings(_)
Strings(n) ==
    IF n = 0 THEN {<<>>}
    ELSE Strings(n - 1) \cup {Append(x, c) : x \in {y \in Strings(n - 1) : Len(y) = n - 1},
                                             c \in TruncChars}

Idle ==
    /\ impl = "none"
    /\ pattern = <<>>
    /\ root = <<Slash>>
    /\ opts = [Recursive |-> FALSE, ExactMatch |-> FALSE, CaseSensitive |-> FALSE]
    /\ fs = <<>>
    /\ stack = <<>>
    /\ results = <<>>
    /\ walkErr = "nil"
    /\ ret = NoRet
    /\ accessed = {}
    /\ faultsLeft = 0

InitFormat ==
    /\ Idle
    /\ pc = "in"
    /\ fn = "none"
    /\ arg \in Sizes
    /\ out = <<>>

ApplyFormatSize ==
    /\ pc = "in"
    /\ pc' = "out"
    /\ fn' = "FormatSize"
    /\ out' = FormatSize(arg)
    /\ UNCHANGED arg
    /\ UNCHANGED searchVars

ApplyFormatSizeDisplayGo ==
    /\ pc = "in"
    /\ pc' = "out"
    /\ fn' = "FormatSizeDisplayGo"
    /\ out' = FormatSizeDisplayGo(arg)
    /\ UNCHANGED arg
    /\ UNCHANGED searchVars

NextFormat == ApplyFormatSize \/ ApplyFormatSizeDisplayGo

SpecFormat == InitFormat /\ [][NextFormat]_vars

InitTrunc ==
    /\ Idle
    /\ pc = "in"
    /\ fn = "none"
    /\ arg \in [str : Strings(MaxStrLen), maxLen : (-2)..MaxLenArg]
    /\ out = <<>>

ApplyTruncateString ==
    /\ pc = "in"
    /\ pc' = "out"
    /\ fn' = "truncateString"
    /\ out' = truncateString(arg.str, arg.maxLen)
    /\ UNCHANGED arg
    /\ UNCHANGED searchVars

NextTrunc == ApplyTruncateString

SpecTrunc == InitTrunc /\ [][NextTrunc]_vars

\* The records handed to PrintResults: two short names that differ in case
\* and one name longer than the name column, in two directories, with sizes
\* whose sums pass the greatest int64.
MaxResults == 3
PrintDirs == {<<"/", "p", "/">>, <<"/", "q", "/">>}
PrintNames == {<<"a">>, <<"B">>}
PrintSizes == {Nat64(<<1>>), Nat64(<<0, 1>>), MaxInt64}
LongName == Repeat("n", 48)

PrintRecords ==
    {[Path |-> d \o n, Name |-> n, Size |-> z, ModTime |-> <<"t", "0">>] :
        d \in PrintDirs, n \in PrintNames, z \in PrintSizes}
    \cup {[Path |-> <<"/", "p", "/">> \o LongName, Name |-> LongName,
           Size |-> Nat64(<<0, 2>>), ModTime |-> <<"t", "1">>]}

ResultLists == UNION {[1..n -> PrintRecords] : n \in 0..MaxResults}

InitPrint ==
    /\ Idle
    /\ pc = "in"
    /\ fn = "none"
    /\ arg \in ResultLists
    /\ out = <<>>

ApplyPrintResults ==
    /\ pc = "in"
    /\ pc' = "out"
    /\ fn' = "PrintResults"
    /\ out' = PrintResults(arg)
    /\ UNCHANGED arg
    /\ UNCHANGED searchVars

NextPrint == ApplyPrintResults

SpecPrint == InitPrint /\ [][NextPrint]_vars

----------------------------------------------------------------------------
(* What a search is expected to return, stated on the tree                 *)

Done == pc = "done"

\* The entries whose lstat or readdir failed during the walk.
Failed == {a.path : a \in {x \in accessed : x.op # "stat" /\ x.err # "nil"}}

StatFailed == \E a \in accessed : a.op = "stat" /\ a.err # "nil"

RootAbs == Resolve(root)

\* The entries at or below the root.
Under ==
    {q \in DOMAIN fs : Len(q) >= Len(RootAbs) /\ SubSeq(q, 1, Len(RootAbs)) = RootAbs}

\* The path by which a walk from root names the entry q.
Spell(q) ==
    LET suffix == SubSeq(q, Len(RootAbs) + 1, Len(q))
    IN  IF root = <<Dot>> /\ suffix # <<>> THEN suffix ELSE root \o suffix

\* The directories a walk from root passes through to reach q: the root (when
\* q is below it) down to q's parent.
DirsFromRoot(q) == {Spell(SubSeq(q, 1, k)) : k \in Len(RootAbs)..(Len(q) - 1)}

\* The same directories and q itself.
WayFromRoot(q) == DirsFromRoot(q) \cup {Spell(q)}

SkipName(name) ==
    Head(name) = "." \/ name \in {NodeModules, Library, System, Applications}

Fold(str) == IF opts.CaseSensitive THEN str ELSE ToLower(str)

MatchRule(name) ==
    IF opts.ExactMatch THEN Fold(name) = Fold(pattern)
    ELSE \E i \in 0..Len(name) : \E j \in i..Len(name) :
            SubSeq(Fold(name), i + 1, j) = Fold(pattern)

\* The files a search has to report.  rootItself says whether a root that is
\* a file counts as its own direct child in a non-recursive search.
Expected(rootItself) ==
    {Spell(q) : q \in {x \in Under :
        /\ fs[x].kind = "file"
        /\ \A d \in DirsFromRoot(x) : ~SkipName(Base(d))
        /\ opts.Recursive \/ Len(x) = Len(RootAbs) + 1 \/ (rootItself /\ x = RootAbs)
        /\ Head(Base(Spell(x))) # "."
        /\ MatchRule(Base(Spell(x)))}}

Returned == {ret.results[i] : i \in DOMAIN ret.results}
ReturnedPaths == {r.Path : r \in Returned}

----------------------------------------------------------------------------
(* Claims                                                                  *)

\* C1: the display.go revision of SearchFiles, called with an empty pattern,
\* returns ErrEmptyPattern and no results, whatever the root and options,
\* and has made no system call by then.
C1_EmptyPatternFailsFast ==
    Done /\ impl = "display.go" /\ pattern = <<>>
        => ret = [results |-> <<>>, err |-> ErrEmptyPattern] /\ accessed = {}

\* C1 witness: an empty pattern with a root that does not exist was rejected.
C1_Witness ==
    Done /\ impl = "display.go" /\ pattern = <<>> /\ ~Exists(root)
        /\ ret.err = ErrEmptyPattern

\* C2 (the claim as stated): with a non-empty pattern and a root that does
\* not exist or cannot be stat'ed, SearchFiles returns ErrInvalidPath and no
\* results.
C2_InvalidRootRejected ==
    Done /\ pattern # <<>> /\ (~Exists(root) \/ StatFailed)
        => ret = [results |-> <<>>, err |-> ErrInvalidPath]

\* C3: once the walk has started SearchFiles returns no error; no entry whose
\* access failed, and nothing below it, is among the results; and every
\* expected file that is reached without passing a failed entry is returned.
C3_WalkErrorsAbsorbed ==
    Done /\ ret.err \notin {ErrEmptyPattern, ErrInvalidPath}
        => /\ ret.err = "nil"
           /\ \A r \in Returned : \A k \in 1..Len(r.Path) :
                SubSeq(r.Path, 1, k) \notin Failed
           /\ \A q \in Under :
                Spell(q) \in Expected(TRUE) /\ WayFromRoot(q) \cap Failed = {}
                    => Spell(q) \in ReturnedPaths

\* C3 witness: a directory could not be read and a file of a sibling
\* directory was returned all the same.
C3_Witness ==
    /\ Done /\ ret.err = "nil"
    /\ \E a \in accessed : a.op = "readdir" /\ a.err # "nil" /\ a.path # root
    /\ \E r \in Returned : Len(r.Path) = Len(root) + 2

\* C4 (the claim as stated): no returned path lies inside a directory whose
\* name starts with "." or is on the deny-list, and no returned name starts
\* with ".".
C4_NoSkippedDirectoryAnywhere ==
    Done => \A r \in Returned :
        /\ \A k \in 1..(Len(Resolve(r.Path)) - 1) : ~SkipName(Resolve(r.Path)[k])
        /\ Head(r.Name) # "."

\* C4 (amended): no returned path lies inside a directory, at or below the
\* root, whose name starts with "." or is on the deny-list, and no returned
\* name starts with ".".
C4_NoSkippedDirectoryBelowRoot ==
    Done => \A r \in Returned :
        /\ \A d \in DirsFromRoot(Resolve(r.Path)) : ~SkipName(Base(d))
        /\ Head(r.Name) # "."

\* C4 witness: a recursive search passed by a skipped directory and a hidden
\* file and returned a file from two levels down.
C4_Witness ==
    /\ Done /\ opts.Recursive
    /\ \E q \in Under : fs[q].kind = "dir" /\ q # RootAbs /\ SkipName(Base(q))
    /\ \E q \in Under : fs[q].kind = "file" /\ Head(Base(q)) = "."
    /\ \E r \in Returned : Len(r.Path) = Len(root) + 2

\* C5 (the claim as stated): after a successful non-recursive search every
\* returned path is the root joined with one name.
C5_DirectChildrenOnly ==
    Done /\ ret.err = "nil" /\ ~opts.Recursive
        => \A r \in Returned :
            Dir(Resolve(r.Path)) = RootAbs /\ r.Path = Join(root, r.Name)

\* C5 (amended): after a successful non-recursive search every returned path
\* is the root joined with one name or, when the root is not a directory,
\* the root itself.
C5_DirectChildrenOrRootFile ==
    Done /\ ret.err = "nil" /\ ~opts.Recursive
        => \A r \in Returned :
            \/ Dir(Resolve(r.Path)) = RootAbs /\ r.Path = Join(root, r.Name)
            \/ r.Path = root /\ fs[RootAbs].kind # "dir"

\* C5 witness: a non-recursive search of a directory that has a matching
\* file two levels down returned a direct child.
C5_Witness ==
    /\ Done /\ ~opts.Recursive /\ ret.err = "nil"
    /\ \E q \in Under : Len(q) = Len(RootAbs) + 2 /\ fs[q].kind = "file"
                        /\ MatchRule(Base(q))
    /\ \E r \in Returned : Dir(Resolve(r.Path)) = RootAbs

\* C6: every returned record satisfies the matching rule of the options it
\* was searched with, and its Name is the entry's name as the filesystem
\* spells it (the last component of its Path), not the lower-cased one.
C6_ResultsMatch ==
    Done => \A r \in Returned :
        /\ IF opts.ExactMatch
           THEN IF opts.CaseSensitive THEN r.Name = pattern
                ELSE ToLower(r.Name) = ToLower(pattern)
           ELSE IF opts.CaseSensitive THEN Contains(r.Name, pattern)
                ELSE Contains(ToLower(r.Name), ToLower(pattern))
        /\ r.Name = Base(r.Path)
        /\ Resolve(r.Path) \in DOMAIN fs

\* C6 witness: a case-insensitive search returned a name that differs from
\* the pattern in case.
C6_Witness ==
    /\ Done /\ ~opts.CaseSensitive /\ opts.ExactMatch
    /\ \E r \in Returned : r.Name # pattern /\ r.Name # ToLower(r.Name)

----------------------------------------------------------------------------
(* Claims about FormatSize and truncateString                              *)

\* a < b for two magnitudes.
RECURSIVE LessMag(_, _)
LessMag(a, b) ==
    IF Len(a) # Len(b) THEN Len(a) < Len(b)
    ELSE IF a = <<>> THEN FALSE
    ELSE IF a[Len(a)] # b[Len(b)] THEN a[Len(a)] < b[Len(b)]
    ELSE LessMag(SubSeq(a, 1, Len(a) - 1), SubSeq(b, 1, Len(b) - 1))

\* unit^k
UnitPower(k) == [i \in 1..(k + 1) |-> IF i = k + 1 THEN 1 ELSE 0]

\* The decimal numeral of a natural number.
RECURSIVE Numeral(_)
Numeral(n) == IF n < 10 THEN <<Digit(n)>> ELSE Numeral(n \div 10) \o <<Digit(n % 10)>>

Formatted == pc = "out" /\ fn \in {"FormatSize", "FormatSizeDisplayGo"}

\* C8: for a size s >= 0 FormatSize renders 0 as "0 B", 1..1023 as the
\* number and " B", and s >= 1024 with the k-th letter of KMGTPE where
\* 1024^k <= s < 1024^(k+1); the letter's index is never out of range, and
\* the greatest int64 gets E.
C8_UnitSelection ==
    Formatted /\ ~arg.neg
        => /\ out # Panic
           /\ arg = Zero64 => out = <<"0", " ", "B">>
           /\ arg # Zero64 /\ LessMag(arg.mag, UnitPower(1))
                => out = Numeral(Val(arg.mag)) \o <<" ", "B">>
           /\ ~LessMag(arg.mag, UnitPower(1))
                => \E k \in 1..Len(Suffixes) :
                    /\ ~LessMag(arg.mag, UnitPower(k))
                    /\ LessMag(arg.mag, UnitPower(k + 1))
                    /\ SubSeq(out, Len(out) - 2, Len(out)) = <<" ", Suffixes[k], "B">>
           /\ arg = MaxInt64 => SubSeq(out, Len(out) - 1, Len(out)) = <<"E", "B">>

\* C8 witness: the greatest int64 was rendered as "8.0 EB".
C8_Witness ==
    pc = "out" /\ fn = "FormatSize" /\ arg = MaxInt64
        /\ out = <<"8", ".", "0", " ", "E", "B">>

\* C9 (the claim as stated): for a size n < 0 FormatSize renders "-" followed
\* by what it renders for the absolute value of n.
C9_NegativeIsMinusAbsolute ==
    Formatted /\ arg.neg => out = <<"-">> \o FormatSize(Nat64(arg.mag))

\* C10: truncateString returns the string when it has at most maxLen
\* codepoints; otherwise nothing when maxLen <= 0, maxLen dots when
\* maxLen <= 3, and else its first maxLen-3 codepoints and "...".  It does
\* not panic and the result has at most max(maxLen, 0) codepoints.
C10_Truncate ==
    pc = "out" /\ fn = "truncateString"
        => LET str == arg.str
               maxLen == arg.maxLen
           IN  /\ out # Panic
               /\ out = IF Len(str) <= maxLen THEN str
                        ELSE IF maxLen <= 0 THEN <<>>
                        ELSE IF maxLen <= 3 THEN [i \in 1..maxLen |-> "."]
                        ELSE [i \in 1..maxLen |->
                                 IF i <= maxLen - 3 THEN str[i] ELSE "."]
               /\ Len(out) <= IF maxLen > 0 THEN maxLen ELSE 0

\* C10 witness: a string of more than maxLen bytes but at most maxLen
\* codepoints was returned unchanged.
C10_Witness ==
    /\ pc = "out" /\ fn = "truncateString"
    /\ ByteCount(arg.str) > arg.maxLen /\ Len(arg.str) = arg.maxLen
    /\ arg.maxLen > 3
    /\ out = arg.str

----------------------------------------------------------------------------
(* Claims about PrintResults                                               *)

Printed == pc = "out" /\ fn = "PrintResults"

\* The lines between the rule under the column row and the closing rule.
DataRows == SubSeq(out.stdout, 6, Len(out.stdout) - 1)

RowOf(r) ==
    Row(truncateString(r.Name, 47), FormatSize(r.Size), r.ModTime, r.Path)

Orders(n) ==
    {p \in [1..n -> 1..n] : \A i, j \in 1..n : i # j => p[i] # p[j]}

\* C11: for a non-empty list PrintResults writes one row per record, the
\* rows are in non-decreasing order of Name under Go's string comparison, and
\* the order is fixed by the input list: records of equal Name, whatever
\* their paths, appear in the order the input has them (the lists are short
\* enough for sort.Slice to sort them by insertion).
C11_RowsSortedByName ==
    (Printed /\ arg # <<>>) =>
        /\ Len(DataRows) = Len(arg)
        /\ \E p \in Orders(Len(arg)) :
            /\ \A i \in DOMAIN arg : DataRows[i] = RowOf(arg[p[i]])
            /\ \A i, j \in DOMAIN arg :
                i < j => /\ ~StrLess(arg[p[j]].Name, arg[p[i]].Name)
                         /\ arg[p[i]].Name = arg[p[j]].Name => p[i] < p[j]

\* C11 witness: the rows of a list that was not in order of Name and holds
\* two records of one Name, the one with the greater path first.
C11_Witness ==
    /\ Printed
    /\ \E i, j \in DOMAIN arg : i < j /\ StrLess(arg[j].Name, arg[i].Name)
    /\ \E i, j \in DOMAIN arg :
        /\ i < j /\ arg[i].Name = arg[j].Name
        /\ StrLess(arg[j].Path, arg[i].Path)
        /\ \E k, l \in DOMAIN DataRows :
            k < l /\ DataRows[k] = RowOf(arg[i]) /\ DataRows[l] = RowOf(arg[j])

\* a + b + c on magnitudes of any length.
RECURSIVE AddMag(_, _, _)
AddMag(a, b, c) ==
    IF a = <<>> /\ b = <<>> THEN (IF c = 0 THEN <<>> ELSE <<c>>)
    ELSE LET x == IF a = <<>> THEN 0 ELSE Head(a)
             y == IF b = <<>> THEN 0 ELSE Head(b)
             t == x + y + c
         IN  <<t % unit>> \o AddMag(IF a = <<>> THEN a ELSE Tail(a),
                                    IF b = <<>> THEN b ELSE Tail(b), t \div unit)

\* The exact sum of the sizes of a list without negative sizes.
RECURSIVE ExactTotal(_)
ExactTotal(list) ==
    IF list = <<>> THEN <<>> ELSE AddMag(Head(list).Size.mag, ExactTotal(Tail(list)), 0)

\* The int64 that is congruent to a magnitude modulo 2^64.
Wrap64(mag) ==
    LET padded == Pad64(mag)
    IN  Int64([i \in 1..Limbs64 |->
                 IF i = Limbs64 THEN padded[i] % TopLimb ELSE padded[i]])

IsHeader(line) == line # <<>> /\ Head(line) = "Found "

\* C12: PrintResults writes the "Found N files (Total size: S)" line exactly
\* when the list is not empty, once, with N the number of records and S the
\* FormatSize of the sum of the sizes reduced modulo 2^64 into the int64
\* range; for an empty list the only text is "No files found".
C12_HeaderAndTotal ==
    Printed =>
        IF arg = <<>>
        THEN \A i \in DOMAIN out.stdout : out.stdout[i] \in {<<>>, NoFilesFound}
        ELSE /\ \A i \in DOMAIN out.stdout : IsHeader(out.stdout[i]) <=> i = 2
             /\ \A i \in DOMAIN out.stdout : out.stdout[i] # NoFilesFound
             /\ out.stdout[2] =
                    <<"Found ", Digit(Len(arg)), " files (Total size: ">>
                        \o FormatSize(Wrap64(ExactTotal(arg))) \o <<")">>

\* C12 witness: the header of two records whose sizes, the greatest int64
\* and 1024, add up to a negative total.
C12_Witness ==
    /\ Printed
    /\ Len(arg) = 2 /\ arg[1].Size = MaxInt64 /\ arg[2].Size = Nat64(<<0, 1>>)
    /\ out.stdout[2] = <<"Found ", "2", " files (Total size: ",
                         "-", "8", ".", "0", " ", "E", "B", ")">>

----------------------------------------------------------------------------
(* Claims about the root                                                   *)

\* C13: the skip rule is applied to the root itself: with a non-empty pattern
\* and a root directory that os.Stat finds and whose base name starts with
\* "." (a root spelled "." included) or is on the deny-list, SearchFiles
\* touches no entry but the root and returns no results and a nil error,
\* whatever the options and whatever files the root holds.
C13_SkippedRootYieldsNothing ==
    ( /\ Done /\ pattern # <<>> /\ ~StatFailed
      /\ Exists(root) /\ fs[RootAbs].kind = "dir" /\ SkipName(Base(root)) )
        => /\ ret = [results |-> <<>>, err |-> "nil"]
           /\ \A a \in accessed : a.path = root

\* C13 witness: a search rooted at "." ended with nothing although a file
\* directly in the root matches the pattern.
C13_Witness ==
    /\ Done /\ root = <<Dot>> /\ pattern # <<>>
    /\ ret = [results |-> <<>>, err |-> "nil"]
    /\ \E q \in Under : /\ Len(q) = Len(RootAbs) + 1
                        /\ fs[q].kind = "file"
                        /\ Head(Base(q)) # "."
                        /\ MatchRule(Base(q))

====
